---------------------------- MODULE Spec2Model ----------------------------
(***************************************************************************)
(* Model of hardware_interface/imu_sensor_interface.h:                     *)
(*   ImuSensorHandle    - a copyable handle whose six views (Eigen::Map)   *)
(*                        alias driver-owned buffers, plus a capability    *)
(*                        bitmask computed from pointer presence;          *)
(*   ImuSensorInterface - a name-keyed registry of handles                 *)
(*                        (registerSensor, getSensorHandle,                *)
(*                        getSensorNames).                                 *)
(* The driver that owns the buffers and the consumers that hold handles    *)
(* are the environment: they call the interface and write the buffers.     *)
(***************************************************************************)
EXTENDS Integers, Sequences, FiniteSets, TLC

(***************************************************************************)
(* Bound: the number of registerSensor calls in a behaviour.               *)
(***************************************************************************)
MaxRegs == 2

(***************************************************************************)
(* Inputs.                                                                 *)
(***************************************************************************)
Names == {"imu_a", "imu_b"}
\* std::map iterates its keys in ascending order
NameOrder == <<"imu_a", "imu_b">>
\* each block of driver storage belongs to a sensor mounted in its own frame
FrameOf(pool) == IF pool = 1 THEN "frame_1" ELSE "frame_2"
Pools == {1, 2}
Consumers == {1}
Samples == {1}

\* a null double* (Data's default constructor sets every pointer to 0)
NULL == 0

Fields == {"orientation", "orientation_covariance",
           "angular_velocity", "angular_velocity_covariance",
           "linear_acceleration", "linear_acceleration_covariance"}

\* the order in which the constructor tests the pointers
FieldOrder == <<"orientation", "orientation_covariance",
                "angular_velocity", "angular_velocity_covariance",
                "linear_acceleration", "linear_acceleration_covariance">>

CovarianceFields == {"orientation_covariance", "angular_velocity_covariance",
                     "linear_acceleration_covariance"}

\* number of doubles a view of the field spans
Size(F) == IF F = "orientation" THEN 4
           ELSE IF F \in CovarianceFields THEN 9
           ELSE 3

\* enum Capabilities
Flag(F) == CASE F = "orientation"                    -> 1
             [] F = "orientation_covariance"         -> 2
             [] F = "angular_velocity"               -> 4
             [] F = "angular_velocity_covariance"    -> 8
             [] F = "linear_acceleration"            -> 16
             [] F = "linear_acceleration_covariance" -> 32

(***************************************************************************)
(* Bit operations on the capability mask (unsigned short, at most 0x3F).   *)
(***************************************************************************)
RECURSIVE BitOr(_, _)
BitOr(a, b) == IF a = 0 THEN b
               ELSE IF b = 0 THEN a
               ELSE (IF a % 2 = 1 \/ b % 2 = 1 THEN 1 ELSE 0)
                    + 2 * BitOr(a \div 2, b \div 2)

BitSet(mask, flag) == (mask \div flag) % 2 = 1

RECURSIVE PopCount(_)
PopCount(m) == IF m = 0 THEN 0 ELSE (m % 2) + PopCount(m \div 2)

(***************************************************************************)
(* ImuSensorHandle::Data and the driver's storage.                         *)
(* The driver owns a few blocks of storage; block p holds one buffer       *)
(* per field.  A pointer is the number of the block whose buffer for that  *)
(* field it addresses, or NULL.                                            *)
(***************************************************************************)
\* the descriptors a driver passes: none, one, three or all six of the
\* buffers of a block
Masks == {{}, {"orientation"},
          {"orientation", "angular_velocity", "linear_acceleration"},
          Fields}

Data(name, frame_id, pool, mask) ==
    [name |-> name, frame_id |-> frame_id,
     ptr |-> [F \in Fields |-> IF F \in mask THEN pool ELSE NULL]]

\* The contents of a buffer are named by the sample it holds: sample 0 is
\* the zero-initialised buffer, sample k > 0 of an n-element buffer is the
\* doubles 10k, 10k+1, ..., 10k+n-1.  Every write of the model stores a
\* whole sample, so a buffer never holds anything else.
Contents(k, n) == [i \in 0..(n - 1) |-> IF k = 0 THEN 0 ELSE 10 * k + i]

\* the doubles of buffer F of block p in storage m
BufferAt(m, p, F) == Contents(m[p][F], Size(F))

(***************************************************************************)
(* ImuSensorHandle.                                                        *)
(***************************************************************************)
\* capabilities_ = flag, the assignment in place of |=
SetCapability_assign(capabilities, flag) == flag

\* capabilities_ |= flag
SetCapability(capabilities, flag) == BitOr(capabilities, flag)

\* the constructor's body: six tests, in order, starting from capabilities_(0)
RECURSIVE ComputeCapabilities(_, _, _)
ComputeCapabilities(data, i, capabilities) ==
    IF i > Len(FieldOrder) THEN capabilities
    ELSE ComputeCapabilities(data, i + 1,
             IF data.ptr[FieldOrder[i]] # NULL
             THEN SetCapability(capabilities, Flag(FieldOrder[i]))
             ELSE capabilities)

\* ImuSensorHandle(const Data&): the views are bound to the descriptor's
\* pointers, the strings are copied, the mask is computed
ImuSensorHandle(data) ==
    [name |-> data.name, frame_id |-> data.frame_id, ptr |-> data.ptr,
     capabilities |-> ComputeCapabilities(data, 1, 0)]

getName(h) == h.name
getFrameId(h) == h.frame_id
getCapabilities(h) == h.capabilities

\* the empty consumer slot
NoHandle == [name |-> "", frame_id |-> "", ptr |-> [F \in Fields |-> NULL],
             capabilities |-> 0]

\* the position in Eigen's default, column-major storage order
CovarianceIndex_colMajor(r, c) == r + 3 * c

\* Eigen::Matrix<double, 3, 3, Eigen::RowMajor>: position of entry (r, c)
\* in the mapped buffer
CovarianceIndex(r, c) == 3 * r + c

\* Eigen::Map<Eigen::Quaternion<double>>: coefficients stored x, y, z, w
OrientationView(buf) == [x |-> buf[0], y |-> buf[1], z |-> buf[2], w |-> buf[3]]
\* Eigen::Map<Eigen::Vector3d>
Vector3View(buf) == [x |-> buf[0], y |-> buf[1], z |-> buf[2]]
\* Eigen::Map of a row-major 3x3 matrix
CovarianceView(buf) ==
    [r \in 0..2 |-> [c \in 0..2 |-> buf[CovarianceIndex(r, c)]]]

\* what the getter of field F exposes when its view maps buffer buf
View(F, buf) == IF F = "orientation" THEN OrientationView(buf)
                ELSE IF F \in CovarianceFields THEN CovarianceView(buf)
                ELSE Vector3View(buf)

\* the values a caller reads through a view, in the view's own order:
\* (x, y, z, w), (x, y, z), or a row-major traversal of the matrix
ReadView(F, buf) ==
    LET v == View(F, buf) IN
    IF F = "orientation" THEN <<v.x, v.y, v.z, v.w>>
    ELSE IF F \in CovarianceFields
         THEN [k \in 1..9 |-> v[(k - 1) \div 3][(k - 1) % 3]]
    ELSE <<v.x, v.y, v.z>>

(***************************************************************************)
(* State.                                                                  *)
(***************************************************************************)
VARIABLES
    mem,         \* driver storage: mem[p][F] is the sample in buffer F of block p
    handle_map,  \* ImuSensorInterface::handle_map_: name -> handle or NoHandle
    held,        \* the handle each consumer got from getSensorHandle
    last,        \* the last call of the interface and what it returned
    crashed,     \* the process was ended by a null dereference
    ub,          \* history: undefined behaviour has been executed
    registered,  \* history: name -> descriptor last passed to registerSensor
    regCount,    \* history: name -> number of registerSensor calls for it
    heldData,    \* history: the descriptor registered for a held handle's
                 \*          name when the consumer retrieved it
    nRegs

vars == <<mem, handle_map, held, last, crashed, ub, registered, regCount,
          heldData, nRegs>>

NoData == Data("", "", 1, {})

NoCall == [op |-> "none", name |-> "", kind |-> "none", what |-> <<>>,
           handle |-> NoHandle, names |-> <<>>,
           values |-> [F \in Fields |-> <<>>]]

Init ==
    /\ mem = [p \in Pools |-> [F \in Fields |-> 0]]
    /\ handle_map = [n \in Names |-> NoHandle]
    /\ held = [c \in Consumers |-> NoHandle]
    /\ last = NoCall
    /\ crashed = FALSE
    /\ ub = FALSE
    /\ registered = [n \in Names |-> NoData]
    /\ regCount = [n \in Names |-> 0]
    /\ heldData = [c \in Consumers |-> NoData]
    /\ nRegs = 0

(***************************************************************************)
(* Copying a handle.                                                       *)
(* The class declares no copy operations, so both are the implicit,        *)
(* memberwise ones.  Copy construction of an Eigen::Map binds the new view *)
(* to the same buffer.  Assignment to an Eigen::Map does not rebind it: it *)
(* copies the coefficients of the source view into the buffer the target   *)
(* view maps.  With a null pointer on either side that copy reads or       *)
(* writes through a null pointer, which is undefined.                      *)
(***************************************************************************)
HandleCopy(src) == src

\* the fields whose view assignment dereferences a null pointer
NullAssignFields(dst, src) ==
    {F \in Fields : dst.ptr[F] = NULL \/ src.ptr[F] = NULL}

\* what the undefined copy may do: end the process, have no effect, or
\* leave arbitrary contents in the target buffer
UBOutcomes == {"crash", "skip", "garbage"}
\* contents the driver never wrote
GarbageSample == Cardinality(Samples) + 1

\* the buffers after the six view assignments of dst = src: each copies
\* every coefficient of the source's buffer into the target's buffer
AssignViews(m, dst, src, outcome) ==
    [p \in Pools |-> [F \in Fields |->
        IF dst.ptr[F] # p THEN m[p][F]
        ELSE IF src.ptr[F] # NULL THEN m[src.ptr[F]][F]
        ELSE IF outcome = "garbage" THEN GarbageSample
        ELSE m[p][F]]]

\* dst = src: name_, frame_id_ and capabilities_ take the source's values,
\* the views keep their buffers and receive the source's coefficients
HandleAssign(m, dst, src, outcome) ==
    [handle |-> [dst EXCEPT !.name = src.name,
                            !.frame_id = src.frame_id,
                            !.capabilities = src.capabilities],
     mem |-> AssignViews(m, dst, src, outcome)]

(***************************************************************************)
(* internal::NamedResourceManager<ImuSensorHandle>.                        *)
(***************************************************************************)
Keys(map) == {n \in Names : map[n] # NoHandle}

\* getNames(): the keys, each once, in the map's order
getNames(map) == SelectSeq(NameOrder, LAMBDA n : n \in Keys(map))

\* get(name): the entry, or an exception when there is none
get(map, name) ==
    IF name \in Keys(map)
    THEN [found |-> TRUE, handle |-> HandleCopy(map[name])]
    ELSE [found |-> FALSE, handle |-> NoHandle]

\* insert(name, handle): a new key gets a copy of the handle; an existing
\* key keeps its entry, which is overwritten by assignment
insert(map, m, name, handle, outcome) ==
    IF name \notin Keys(map)
    THEN [map |-> [map EXCEPT ![name] = HandleCopy(handle)], mem |-> m]
    ELSE LET a == HandleAssign(m, map[name], handle, outcome)
         IN [map |-> [map EXCEPT ![name] = a.handle], mem |-> a.mem]

\* whether insert(name, handle) executes undefined behaviour
insertIsUndefined(map, name, handle) ==
    /\ name \in Keys(map)
    /\ NullAssignFields(map[name], handle) # {}

(***************************************************************************)
(* ImuSensorInterface.                                                     *)
(***************************************************************************)
\* internal::demangledTypeName(*this)
TypeName == "hardware_interface::ImuSensorInterface"

\* the message without the requested name
NotFoundMessage_noName(name) ==
    <<"Could not find IMU sensor '">> \o <<"' in ">> \o <<TypeName>>

\* "Could not find IMU sensor '" + name + "' in " + demangledTypeName(*this)
NotFoundMessage(name) ==
    <<"Could not find IMU sensor '">> \o <<name>> \o <<"' in ">> \o <<TypeName>>

\* the frame id passed as the key
SensorKey_frameId(data) == data.frame_id

\* the key registerSensor passes to insert: data.name
SensorKey(data) == data.name

\* what a call registerSensor(data) can do in the current state
registerOutcomes(data) ==
    IF insertIsUndefined(handle_map, SensorKey(data), ImuSensorHandle(data))
    THEN UBOutcomes
    ELSE {"defined"}

\* registerSensor(data): ImuSensorHandle handle(data);
\*                       handle_map_.insert(data.name, handle);
\* The history variables record the calls that returned.
registerSensor(data, outcome) ==
    /\ ~crashed
    /\ nRegs < MaxRegs
    /\ LET handle == ImuSensorHandle(data)
           r == insert(handle_map, mem, SensorKey(data), handle, outcome)
       IN /\ outcome \in registerOutcomes(data)
          /\ ub' = (ub \/ outcome # "defined")
          /\ crashed' = (outcome = "crash")
          /\ IF outcome = "crash"
             THEN UNCHANGED <<handle_map, mem, registered, regCount>>
             ELSE /\ handle_map' = r.map
                  /\ mem' = r.mem
                  /\ registered' = [registered EXCEPT ![data.name] = data]
                  /\ regCount' = [regCount EXCEPT ![data.name] = @ + 1]
    /\ last' = [NoCall EXCEPT !.op = "registerSensor", !.name = data.name,
                              !.kind = IF outcome = "crash" THEN "crash" ELSE "ok"]
    /\ nRegs' = nRegs + 1
    /\ UNCHANGED <<held, heldData>>

\* a lookup that creates the entry it does not find, as std::map's
\* operator[] would
getSensorHandle_inserting(c, name) ==
    /\ ~crashed
    /\ LET r == get(handle_map, name)
       IN IF r.found
          THEN /\ last' = [NoCall EXCEPT !.op = "getSensorHandle", !.name = name,
                                         !.kind = "ok", !.handle = r.handle]
               /\ held' = [held EXCEPT ![c] = HandleCopy(r.handle)]
               /\ heldData' = [heldData EXCEPT ![c] = registered[name]]
               /\ UNCHANGED handle_map
          ELSE /\ last' = [NoCall EXCEPT !.op = "getSensorHandle", !.name = name,
                                         !.kind = "HardwareInterfaceException",
                                         !.what = NotFoundMessage(name)]
               /\ handle_map' = [handle_map EXCEPT
                                   ![name] = ImuSensorHandle(Data(name, "", 1, {}))]
               /\ UNCHANGED <<held, heldData>>
    /\ UNCHANGED <<mem, crashed, ub, registered, regCount, nRegs>>

\* getSensorHandle(name) called by consumer c, which keeps the result:
\* try { return handle_map_.get(name); }
\* catch(...) { throw HardwareInterfaceException(...); }
getSensorHandle(c, name) ==
    /\ ~crashed
    /\ LET r == get(handle_map, name)
       IN IF r.found
          THEN /\ last' = [NoCall EXCEPT !.op = "getSensorHandle", !.name = name,
                                         !.kind = "ok", !.handle = r.handle]
               /\ held' = [held EXCEPT ![c] = HandleCopy(r.handle)]
               /\ heldData' = [heldData EXCEPT ![c] = registered[name]]
          ELSE /\ last' = [NoCall EXCEPT !.op = "getSensorHandle", !.name = name,
                                         !.kind = "HardwareInterfaceException",
                                         !.what = NotFoundMessage(name)]
               /\ UNCHANGED <<held, heldData>>
    /\ UNCHANGED <<mem, handle_map, crashed, ub, registered, regCount,
                   nRegs>>

\* a listing of the entries' frame ids in place of their names
getSensorNames_frameIds ==
    /\ ~crashed
    /\ last' = [NoCall EXCEPT
                  !.op = "getSensorNames", !.kind = "ok",
                  !.names = [i \in 1..Len(getNames(handle_map)) |->
                                getFrameId(handle_map[getNames(handle_map)[i]])]]
    /\ UNCHANGED <<mem, handle_map, held, heldData, crashed, ub, registered,
                   regCount, nRegs>>

\* getSensorNames(): return handle_map_.getNames();
getSensorNames ==
    /\ ~crashed
    /\ last' = [NoCall EXCEPT !.op = "getSensorNames", !.kind = "ok",
                              !.names = getNames(handle_map)]
    /\ UNCHANGED <<mem, handle_map, held, heldData, crashed, ub, registered,
                   regCount, nRegs>>

\* consumer c reads its handle: for each field whose capability bit is set
\* it calls the getter and reads the view.  The getter returns the view; the
\* read goes to the buffer the view maps.  A view over a null pointer with
\* its bit set (possible only in a handle copied from an entry that an
\* undefined assignment left behind) is read through the null pointer.
readHandle(c, outcome) ==
    /\ ~crashed
    /\ held[c] # NoHandle
    /\ LET h == held[c]
           flagged == {F \in Fields : BitSet(getCapabilities(h), Flag(F))}
           undefined == \E F \in flagged : h.ptr[F] = NULL
       IN /\ outcome \in (IF undefined THEN {"crash", "garbage"} ELSE {"defined"})
          /\ ub' = (ub \/ outcome # "defined")
          /\ crashed' = (outcome = "crash")
          /\ last' = [NoCall EXCEPT
                        !.op = "readHandle", !.name = getName(h),
                        !.kind = IF outcome = "crash" THEN "crash" ELSE "ok",
                        !.values = [F \in Fields |->
                            IF outcome = "crash" \/ F \notin flagged THEN <<>>
                            ELSE IF h.ptr[F] = NULL
                                 THEN ReadView(F, Contents(GarbageSample, Size(F)))
                            ELSE ReadView(F, BufferAt(mem, h.ptr[F], F))]]
    /\ UNCHANGED <<mem, handle_map, held, heldData, registered, regCount,
                   nRegs>>

\* the driver's read cycle stores a new sample in the buffers of a block
driverWrite(p, k) ==
    /\ ~crashed
    /\ mem' = [mem EXCEPT ![p] = [F \in Fields |-> k]]
    /\ UNCHANGED <<handle_map, held, last, crashed, ub, registered, regCount,
                   heldData, nRegs>>

AllOutcomes == UBOutcomes \cup {"defined"}

Register ==
    \E name \in Names, pool \in Pools, mask \in Masks, outcome \in AllOutcomes :
        registerSensor(Data(name, FrameOf(pool), pool, mask), outcome)

Lookup == \E c \in Consumers, name \in Names : getSensorHandle(c, name)

ListNames == getSensorNames

Read == \E c \in Consumers, outcome \in AllOutcomes : readHandle(c, outcome)

Write == \E p \in Pools, k \in Samples : driverWrite(p, k)

Next == Register \/ Lookup \/ ListNames \/ Read \/ Write

Spec == Init /\ [][Next]_vars

(***************************************************************************)
(* Properties.                                                             *)
(***************************************************************************)
PresentFields(data) == {F \in Fields : data.ptr[F] # NULL}

\* the handles that exist: the registry's entries and the consumers' copies,
\* each with the descriptor it stands for
ExistingHandles ==
    {<<handle_map[n], registered[n]>> : n \in Keys(handle_map)}
    \cup {<<held[c], heldData[c]>> : c \in {d \in Consumers : held[d] # NoHandle}}

\* C1: in every reachable state, every handle in the registry or held by a
\* consumer has the capability bit of field F set exactly when the descriptor
\* it was built from has a non-null pointer for F, so k present buffers give
\* a mask of exactly k bits (0 when none), whatever registrations, lookups
\* and driver writes have happened since.
C1_CapabilitiesMatchDescriptor ==
    \A hd \in ExistingHandles :
        /\ \A F \in Fields :
              BitSet(getCapabilities(hd[1]), Flag(F)) <=> (hd[2].ptr[F] # NULL)
        /\ PopCount(getCapabilities(hd[1])) = Cardinality(PresentFields(hd[2]))
        /\ getCapabilities(hd[1]) < 64

C1_Witness ==
    /\ ~ub
    /\ \E c \in Consumers :
          /\ held[c] # NoHandle
          /\ PopCount(getCapabilities(held[c])) = 3
    /\ \E n \in Keys(handle_map) : getCapabilities(handle_map[n]) = 0
    /\ last.op = "registerSensor"
    /\ \E p \in Pools : mem[p]["orientation"] # 0

C3_NotFoundExactlyWhenUnregistered ==
    last.op = "getSensorHandle" =>
      /\ last.kind \in {"ok", "HardwareInterfaceException"}
      /\ (last.kind = "HardwareInterfaceException")
            <=> (last.name \notin Keys(handle_map))
      /\ (last.kind = "HardwareInterfaceException")
            => \E i \in DOMAIN last.what : last.what[i] = last.name
      /\ (last.kind = "ok")
            => /\ last.handle = handle_map[last.name]
               /\ last.what = <<>>

C3_Witness ==
    /\ last.op = "getSensorHandle"
    /\ last.kind = "HardwareInterfaceException"
    /\ Keys(handle_map) # {}
    /\ last.name \notin Keys(handle_map)

\* C4: getSensorNames() returns every name that has been registered exactly
\* once and no other name.
C4_NamesAreTheRegisteredSet ==
    last.op = "getSensorNames" =>
      /\ \A n \in Names :
            regCount[n] > 0 =>
              Cardinality({i \in DOMAIN last.names : last.names[i] = n}) = 1
      /\ \A i \in DOMAIN last.names :
            last.names[i] \in Names /\ regCount[last.names[i]] > 0

C4_Witness ==
    /\ last.op = "getSensorNames"
    /\ Len(last.names) = 1
    /\ regCount[last.names[1]] >= 2

C8_ViewsFollowBufferLayout ==
    \A hd \in ExistingHandles :
        (\A F \in Fields : hd[1].ptr[F] # NULL) =>
          \A F \in Fields :
              LET buf == BufferAt(mem, hd[1].ptr[F], F)
                  v == View(F, buf)
              IN /\ ReadView(F, buf) = [k \in 1..Size(F) |-> buf[k - 1]]
                 /\ (F = "orientation") =>
                       v.x = buf[0] /\ v.y = buf[1] /\ v.z = buf[2] /\ v.w = buf[3]
                 /\ (F \in {"angular_velocity", "linear_acceleration"}) =>
                       v.x = buf[0] /\ v.y = buf[1] /\ v.z = buf[2]
                 /\ (F \in CovarianceFields) =>
                       \A r \in 0..2, c \in 0..2 : v[r][c] = buf[3 * r + c]

C8_Witness ==
    /\ ~ub
    /\ last.op = "readHandle"
    /\ last.values["orientation"] = <<10, 11, 12, 13>>
    /\ last.values["orientation_covariance"] = <<10, 11, 12, 13, 14, 15, 16, 17, 18>>
    /\ \E c \in Consumers : \A F \in Fields : held[c].ptr[F] # NULL

\* C9: a name that registerSensor has been called with is registered in
\* every later state: a later getSensorHandle for it succeeds and a later
\* getSensorNames lists it.
C9_RegistryIsMonotone ==
    \A n \in Names :
        regCount[n] > 0 =>
          /\ n \in Keys(handle_map)
          /\ (last.op = "getSensorHandle" /\ last.name = n) => last.kind = "ok"
          /\ (last.op = "getSensorNames")
                => \E i \in DOMAIN last.names : last.names[i] = n

C9_Witness ==
    /\ last.op = "getSensorHandle"
    /\ last.kind = "ok"
    /\ regCount[last.name] >= 2
    /\ \E p \in Pools : mem[p]["orientation"] # 0

\* C10: a getSensorHandle call, returning or failing, and a getSensorNames
\* call leave the registry as it was; a failed lookup creates no entry.
C10_LookupsLeaveRegistry ==
    [][(nRegs' = nRegs /\ mem' = mem
          /\ last'.op \in {"getSensorHandle", "getSensorNames"}) =>
            /\ handle_map' = handle_map
            /\ (last'.kind = "HardwareInterfaceException")
                  => last'.name \notin Keys(handle_map')]_vars

C10_Witness ==
    /\ last.op = "getSensorHandle"
    /\ last.kind = "HardwareInterfaceException"
    /\ \E c \in Consumers : held[c] # NoHandle /\ held[c].name # last.name
    /\ regCount[last.name] = 0

=============================================================================
